---- MODULE Spec2Model ----
(***************************************************************************)
(* A model of src/src/ale.cpp: the tabulated and polynomial kinematics     *)
(* operations (getPosition, getVelocity, getRotation, getAngularVelocity), *)
(* the two primitives they delegate to (interpolate, evaluatePolynomial)   *)
(* and the interpreter bootstrap of load.                                  *)
(*                                                                         *)
(* Numbers are exact rationals <<numerator, denominator>> (denominator     *)
(* positive, lowest terms): the arithmetic of the C++ doubles without the  *)
(* rounding.  The library calls are modelled by what the libraries         *)
(* compute: gsl_interp_eval* by the linear / natural cubic spline          *)
(* formulas of GSL, gsl_poly_eval_derivs by its Horner scheme, Eigen's     *)
(* normalize() by division by the norm, guarded against a zero norm.       *)
(***************************************************************************)
EXTENDS Integers, Sequences, FiniteSets

\* ------------------------------------------------------------- bounds

\* Longest channel / timestamp sequence a call is given.
MaxLen == 3

\* Longest coefficient sequence of a polynomial axis.
MaxCoeffs == 3

\* Largest derivative order asked of evaluatePolynomial.
MaxDeriv == 3

\* Number of calls of load each thread makes.
MaxLoads == 2

\* ------------------------------------------------- rational arithmetic

Abs(n) == IF n < 0 THEN -n ELSE n

RECURSIVE Gcd(_, _)
Gcd(a, b) == IF b = 0 THEN a ELSE Gcd(b, a % b)

RatOver(n, d, g) ==
  IF d < 0 THEN <<(-n) \div g, (-d) \div g>> ELSE <<n \div g, d \div g>>

\* The rational n/d (d # 0) in lowest terms with a positive denominator.
Rat(n, d) == RatOver(n, d, Gcd(Abs(n), Abs(d)))

RInt(n) == <<n, 1>>
Zero == <<0, 1>>
One == <<1, 1>>

\* Sums and products reduce before they multiply, as far as they can.
RAddOver(a, b, g) ==
  Rat(a[1] * (b[2] \div g) + b[1] * (a[2] \div g), (a[2] \div g) * b[2])
RAdd(a, b) ==
  IF b[1] = 0 THEN a
  ELSE IF a[1] = 0 THEN b
  ELSE RAddOver(a, b, Gcd(a[2], b[2]))
RNeg(a) == <<-a[1], a[2]>>
RSub(a, b) == RAdd(a, RNeg(b))
RMulOver(a, b, g1, g2) ==
  Rat((a[1] \div g1) * (b[1] \div g2), (a[2] \div g2) * (b[2] \div g1))
RMul(a, b) ==
  IF b[1] = 0 \/ a[1] = 0 THEN Zero
  ELSE RMulOver(a, b, Gcd(Abs(a[1]), b[2]), Gcd(Abs(b[1]), a[2]))
RInv(a) == IF a[1] < 0 THEN <<-a[2], -a[1]>> ELSE <<a[2], a[1]>>
RDiv(a, b) == RMul(a, RInv(b))
RLt(a, b) == a[1] * b[2] < b[1] * a[2]
RGt(a, b) == RLt(b, a)

\* The integer square root of a perfect square n >= 0.
ISqrt(n) == CHOOSE r \in 0..n : r * r = n


\* The square root of a rational that has a rational square root.
RSqrt(a) == <<ISqrt(a[1]), ISqrt(a[2])>>

RECURSIVE SumSq(_, _)
SumSq(v, i) == IF i = 0 THEN Zero ELSE RAdd(SumSq(v, i - 1), RMul(v[i], v[i]))

\* squaredNorm() of an Eigen vector.
SquaredNorm(v) == SumSq(v, Len(v))

\* -------------------------------------------------- GSL interpolation

\* gsl_interp_accel_find: the (1-based) index i of the interval
\* [xa[i], xa[i+1]] that brackets x; the last interval when x is xa's last.
IntervalIndex(xa, x) ==
  LET n == Len(xa)
      S == {i \in 1..(n - 1) : ~RLt(x, xa[i])}
  IN  IF S = {} THEN 1 ELSE CHOOSE i \in S : \A j \in S : j <= i

\* gsl_interp_linear: linear_eval, linear_eval_deriv, linear_eval_deriv2.
LinearEval(xa, ya, x, d) ==
  LET i == IntervalIndex(xa, x)
      dx == RSub(xa[i + 1], xa[i])
      dy == RSub(ya[i + 1], ya[i])
  IN  CASE d = 0 -> RAdd(ya[i], RMul(RDiv(RSub(x, xa[i]), dx), dy))
        [] d = 1 -> RDiv(dy, dx)
        [] OTHER -> Zero

\* cspline_init: row i (1-based) of GSL's symmetric tridiagonal system for
\* the interior coefficients: <<offdiag[i], diag[i], g[i]>>.
CsplineRow(xa, ya, i) ==
  LET h_i == RSub(xa[i + 1], xa[i])
      h_ip1 == RSub(xa[i + 2], xa[i + 1])
      ydiff_i == RSub(ya[i + 1], ya[i])
      ydiff_ip1 == RSub(ya[i + 2], ya[i + 1])
  IN  <<h_ip1,
        RMul(RInt(2), RAdd(h_ip1, h_i)),
        RMul(RInt(3), RSub(RDiv(ydiff_ip1, h_ip1), RDiv(ydiff_i, h_i)))>>

\* One step of the forward elimination: <<c', d'>> of a row from the
\* row above's offdiag and <<c', d'>>.
CsplineEliminate(row, off, prev) ==
  <<RDiv(row[1], RSub(row[2], RMul(off, prev[1]))),
    RDiv(RSub(row[3], RMul(off, prev[2])), RSub(row[2], RMul(off, prev[1])))>>

RECURSIVE CsplineForward(_, _, _)
\* The forward loop over the rows of the system: rows holds <<c', d'>> of
\* the rows eliminated so far.
CsplineForward(xa, ya, rows) ==
  IF Len(rows) >= Len(xa) - 2 THEN rows
  ELSE IF rows = <<>>
  THEN CsplineForward(xa, ya,
         <<<<RDiv(CsplineRow(xa, ya, 1)[1], CsplineRow(xa, ya, 1)[2]),
             RDiv(CsplineRow(xa, ya, 1)[3], CsplineRow(xa, ya, 1)[2])>>>>)
  ELSE CsplineForward(xa, ya,
         Append(rows, CsplineEliminate(CsplineRow(xa, ya, Len(rows) + 1),
                                       CsplineRow(xa, ya, Len(rows))[1],
                                       rows[Len(rows)])))

RECURSIVE CsplineBack(_, _)
\* The backward loop: sol holds the unknowns solved so far, the last
\* Len(sol) ones.
CsplineBack(rows, sol) ==
  IF Len(sol) >= Len(rows) THEN sol
  ELSE IF sol = <<>> THEN CsplineBack(rows, <<rows[Len(rows)][2]>>)
  ELSE CsplineBack(rows,
         <<RSub(rows[Len(rows) - Len(sol)][2],
                RMul(rows[Len(rows) - Len(sol)][1], sol[1]))>> \o sol)

\* cspline_init: the coefficients c[1..n] of the natural cubic spline
\* (c[1] = c[n] = 0, the interior ones solve the tridiagonal system).
CsplineCoeffs(xa, ya) ==
  <<Zero>> \o CsplineBack(CsplineForward(xa, ya, <<>>), <<>>) \o <<Zero>>

\* gsl_interp_cspline: cspline_eval, cspline_eval_deriv, cspline_eval_deriv2.
CsplineEval(xa, ya, c, x, d) ==
  LET i == IntervalIndex(xa, x)
      dx == RSub(xa[i + 1], xa[i])
      dy == RSub(ya[i + 1], ya[i])
      b_i == RSub(RDiv(dy, dx),
                  RDiv(RMul(dx, RAdd(c[i + 1], RMul(RInt(2), c[i]))), RInt(3)))
      c_i == c[i]
      d_i == RDiv(RSub(c[i + 1], c[i]), RMul(RInt(3), dx))
      delx == RSub(x, xa[i])
  IN  CASE d = 0 ->
             RAdd(ya[i], RMul(delx, RAdd(b_i, RMul(delx, RAdd(c_i, RMul(delx, d_i))))))
        [] d = 1 ->
             RAdd(b_i, RMul(delx, RAdd(RMul(RInt(2), c_i),
                                       RMul(RMul(RInt(3), d_i), delx))))
        [] OTHER ->
             RAdd(RMul(RInt(2), c_i), RMul(RMul(RInt(6), d_i), delx))

\* The switch over d of interpolate: gsl_interp_eval, _eval_deriv or
\* _eval_deriv2 of the interpolant of the selected method.
GslEval(interp, xa, ya, c, x, d) ==
  IF interp = "linear" THEN LinearEval(xa, ya, x, d)
  ELSE CsplineEval(xa, ya, c, x, d)

\* gsl_interp_init: the state of the interpolant, none for the linear
\* method, the coefficients c[] for the cubic spline.
GslInit(interp, xa, ya) ==
  IF interp = "linear" THEN <<>> ELSE CsplineCoeffs(xa, ya)

\* gsl_interp_type_min_size of the two methods of interp_methods[].
GslMinSize(interp) == IF interp = "linear" THEN 2 ELSE 3

\* ------------------------------------------------ GSL polynomial, Eigen

RECURSIVE PolyInner(_, _, _, _)
\* The inner loop of gsl_poly_eval_derivs: res[l] = x*res[l] + res[l-1] for
\* l = 1..lmax (0-based), in ascending order.  res is 1-based here.
PolyInner(res, x, l, lmax) ==
  IF l > lmax THEN res
  ELSE PolyInner([res EXCEPT ![l + 1] = RAdd(RMul(x, res[l + 1]), res[l])],
                 x, l + 1, lmax)

RECURSIVE PolyOuter(_, _, _, _, _)
\* The outer loop of gsl_poly_eval_derivs over i = 0..lenc-2.
PolyOuter(res, c, x, i, nmax) ==
  LET lenc == Len(c)
      k == (lenc - 1) - i
      r0 == [res EXCEPT ![1] = RAdd(RMul(x, res[1]), c[k])]
      lmax == IF nmax < k THEN nmax ELSE k - 1
  IN  IF i > lenc - 2 THEN res
      ELSE PolyOuter(PolyInner(r0, x, 1, lmax), c, x, i + 1, nmax)

RECURSIVE Factorial(_)
Factorial(n) == IF n <= 1 THEN 1 ELSE n * Factorial(n - 1)

\* gsl_poly_eval_derivs(c, lenc, x, res, lenres): res[1..lenres] holds the
\* derivatives of order 0..lenres-1 of the polynomial at x.
GslPolyEvalDerivs(c, x, lenres) ==
  LET lenc == Len(c)
      nmax == (IF lenres < lenc THEN lenres ELSE lenc) - 1
      init == [i \in 1..lenres |-> IF i <= lenc THEN c[lenc] ELSE Zero]
      horner == PolyOuter(init, c, x, 0, nmax)
  IN  [i \in 1..lenres |->
         IF 2 <= i - 1 /\ i - 1 <= nmax
         THEN RMul(RInt(Factorial(i - 1)), horner[i]) ELSE horner[i]]

\* evaluatePolynomial with derivatives.front() returned.
EvaluatePolynomialFront(coeffs, time, d) ==
  IF coeffs = <<>> THEN [err |-> "coeffs_empty", val |-> Zero]
  ELSE IF d < 0 THEN [err |-> "derivative_negative", val |-> Zero]
  ELSE [err |-> "none", val |-> GslPolyEvalDerivs(coeffs, time, d + 1)[1]]

\* evaluatePolynomial: the thrown error, or derivatives.back().
EvaluatePolynomial(coeffs, time, d) ==
  IF coeffs = <<>> THEN [err |-> "coeffs_empty", val |-> Zero]
  ELSE IF d < 0 THEN [err |-> "derivative_negative", val |-> Zero]
  ELSE [err |-> "none", val |-> GslPolyEvalDerivs(coeffs, time, d + 1)[d + 1]]

\* Eigen::Quaterniond::normalize() of the sample (w, x, y, z): the
\* coefficients divided by the norm, left unchanged when the norm is 0.
\* Samples are drawn with a rational norm, so the quotient is exact.
QuatNormalize(q) ==
  LET z == SquaredNorm(q)
  IN  IF RGt(z, Zero) THEN [j \in 1..4 |-> RDiv(q[j], RSqrt(z))] ELSE q

\* MatrixBase::normalize() of the mapped 4x1 result: the squared norm z the
\* vector is divided by the root of (1 when the vector is zero and is left
\* as it is).  The returned vector is coordinate / sqrt(scale).
NormalizeScale(v) ==
  LET z == SquaredNorm(v)
  IN  IF RGt(z, Zero) THEN z ELSE One

\* ------------------------------------------------------ one call's frame

(***************************************************************************)
(* A frame is one call in progress: the callee's own copies of its         *)
(* by-value parameters (data: coords / rotations / coeffs / points), its   *)
(* position pc, the loop index i of the normalization loop, the number k   *)
(* of the channel being interpolated or evaluated, the results so far      *)
(* (coordinate, to be divided by sqrt(scale)), the GSL objects the call    *)
(* holds (heap), the numerical work done so far (log) and how it ended.    *)
(***************************************************************************)
IdleFrame ==
  [op |-> "none", pc |-> "idle", data |-> <<>>, times |-> <<>>, time |-> Zero,
   interp |-> "linear", d |-> 0, i |-> 0, k |-> 0, coordinate |-> <<>>,
   scale |-> One, heap |-> {}, state |-> <<>>, log |-> <<>>, outcome |-> "none", msg |-> ""]

TabulatedOps == {"getPosition", "getVelocity", "getRotation", "getAngularVelocity"}
RotationOps == {"getRotation", "getAngularVelocity"}
PolynomialOps == {"getPositionPoly", "getVelocityPoly"}

\* The channel count each operation compares coords.size() with.
RequiredSize(op) == IF op \in RotationOps THEN 4 ELSE 3

\* The derivative order each operation passes down.
DerivOf(op) == IF op \in {"getVelocity", "getAngularVelocity", "getVelocityPoly"}
               THEN 1 ELSE 0

\* The number of interpolate / evaluatePolynomial calls of the operation.
NumCalls(op) ==
  CASE op \in RotationOps -> 4
    [] op \in {"interpolate", "evaluatePolynomial"} -> 1
    [] OTHER -> 3

\* The frame on entry of op with the given arguments.
Enter(op, data, times, time, interp, d) ==
  [IdleFrame EXCEPT
     !.op = op, !.data = data, !.times = times, !.time = time,
     !.interp = interp, !.d = d, !.k = 1, !.i = 1,
     !.pc = CASE op = "interpolate" -> "ip_check"
              [] op = "evaluatePolynomial" -> "poly"
              [] OTHER -> "check_size"]

\* throw invalid_argument(msg): the call ends; what it holds stays held.
Throw(f, msg) ==
  [f EXCEPT !.pc = "done", !.outcome = "invalid_argument", !.msg = msg]

\* The size check placed after the first piece of numerical work.
CheckSizeLate(f) ==
  IF Len(f.data) # RequiredSize(f.op)
  THEN Throw([f EXCEPT !.log = Append(@, "eval")], "size")
  ELSE [f EXCEPT !.pc = CASE f.op \in PolynomialOps -> "poly"
                          [] f.op \in RotationOps /\ f.data[1] # <<>> -> "normalize"
                          [] OTHER -> "ip_check"]

\* if (coords.size() != 3) / if (rotations.size() != 4) throw ...; then on
\* to the normalization loop (skipped when rotations[0] is empty), the
\* first interpolate or the first evaluatePolynomial.
CheckSize(f) ==
  IF Len(f.data) # RequiredSize(f.op) THEN Throw(f, "size")
  ELSE [f EXCEPT !.pc = CASE f.op \in PolynomialOps -> "poly"
                          [] f.op \in RotationOps /\ f.data[1] # <<>> -> "normalize"
                          [] OTHER -> "ip_check"]

\* Values an out-of-bounds read may yield.
Indeterminate == {Zero, One}

\* The frame after the loop body wrote the components q back at index i
\* (only into the channels that hold an index i) and i++ was taken.
WriteBack(f, q, event) ==
  [f EXCEPT
     !.data = [j \in 1..4 |->
                 IF f.i <= Len(f.data[j]) THEN [f.data[j] EXCEPT ![f.i] = q[j]]
                 ELSE f.data[j]],
     !.log = Append(@, event),
     !.i = f.i + 1,
     !.pc = IF f.i + 1 <= Len(f.data[1]) THEN "normalize" ELSE "ip_check"]

\* The normalization loop reduced to its exit: no sample is touched.
NormalizeSampleSkipped(f) == {[f EXCEPT !.pc = "ip_check"]}

\* One iteration of for (i = 0; i < rotations[0].size(); i++): the sample
\* quaternion is read from the four channels, normalized and written back.
\* rotations[j][i] beyond the end of a shorter channel j is undefined
\* behaviour: the call crashes, or goes on with indeterminate values.
NormalizeSample(f) ==
  IF \A j \in 1..4 : f.i <= Len(f.data[j])
  THEN {WriteBack(f, QuatNormalize([j \in 1..4 |-> f.data[j][f.i]]), "normalize")}
  ELSE {[f EXCEPT !.pc = "done", !.outcome = "crashed", !.log = Append(@, "oob")]}
       \cup {WriteBack(f, [j \in 1..4 |-> g], "oob") : g \in Indeterminate}

\* interpolate(coords[0], ...) for every call.
InterpArgFirst(f) == f.data[1]

\* The channel the k-th interpolate / evaluatePolynomial call is given.
InterpArg(f) == f.data[f.k]

\* time <= times.front() || time >= times.back()
TimeOutsideStrict(times, time) ==
  ~RLt(times[1], time) \/ ~RLt(time, times[Len(times)])

\* time < times.front() || time > times.back()
TimeOutside(times, time) ==
  RLt(time, times[1]) \/ RGt(time, times[Len(times)])

\* The three precondition checks of interpolate, in order.
InterpCheck(f) ==
  LET points == InterpArg(f)
  IN  IF Len(points) < 2 THEN Throw(f, "points")
      ELSE IF Len(points) # Len(f.times) THEN Throw(f, "length")
      ELSE IF TimeOutside(f.times, f.time) THEN Throw(f, "time")
      ELSE [f EXCEPT !.pc = "ip_alloc"]

\* gsl_interp_alloc, gsl_interp_init, gsl_interp_accel_alloc.
InterpAlloc(f) ==
  [f EXCEPT !.heap = @ \cup {"interpolator", "acc"},
            !.state = GslInit(f.interp, f.times, InterpArg(f)),
            !.log = Append(@, "alloc"), !.pc = "ip_eval"]

\* switch (d): the evaluation, or the throw of the default case.
InterpEval(f) ==
  IF f.d \in {0, 1, 2}
  THEN [f EXCEPT
          !.coordinate = Append(@, GslEval(f.interp, f.times, InterpArg(f), f.state, f.time, f.d)),
          !.log = Append(@, "eval"), !.pc = "ip_free"]
  ELSE Throw(f, "derivative")

\* The frame after the k-th primitive call returned.
AfterCall(f) ==
  IF f.k < NumCalls(f.op)
  THEN [f EXCEPT !.k = f.k + 1,
                 !.pc = IF f.op \in PolynomialOps THEN "poly" ELSE "ip_check"]
  ELSE IF f.op \in RotationOps THEN [f EXCEPT !.pc = "final_normalize"]
  ELSE [f EXCEPT !.pc = "done", !.outcome = "returned"]

\* gsl_interp_free, gsl_interp_accel_free, return result.
InterpFree(f) ==
  AfterCall([f EXCEPT !.heap = @ \ {"interpolator", "acc"}, !.state = <<>>,
                      !.log = Append(@, "free")])

\* return coordinate without the final quat.normalize().
FinalNormalizeOmitted(f) ==
  [f EXCEPT !.pc = "done", !.outcome = "returned"]

\* Eigen::Map<Eigen::MatrixXd> quat(coordinate.data(), 4, 1);
\* quat.normalize(); return coordinate;
FinalNormalize(f) ==
  [f EXCEPT !.scale = NormalizeScale(f.coordinate),
            !.log = Append(@, "normalize_result"),
            !.pc = "done", !.outcome = "returned"]

\* coordinate[k] = evaluatePolynomial(coeffs[k], time, d).
PolyEval(f) ==
  LET r == EvaluatePolynomial(InterpArg(f), f.time, f.d)
  IN  IF r.err # "none" THEN Throw(f, r.err)
      ELSE AfterCall([f EXCEPT !.coordinate = Append(@, r.val),
                               !.log = Append(@, "poly")])

\* ----------------------------------------------------------------- state

VARIABLES
  caller,          \* the caller's buffers: [data, times], passed by value
  caller0,         \* the caller's buffers as the caller last filled them
  frames,          \* each thread's call in progress
  first_run,       \* load's static bool first_run
  pyInit,          \* number of Py_Initialize() calls made
  atexitCount,     \* number of atexit(Py_Finalize) registrations made
  importedUninit,  \* a PyImport_Import ran before any Py_Initialize()
  loader           \* each thread's position in load and its calls so far

vars == <<caller, caller0, frames, first_run, pyInit, atexitCount,
          importedUninit, loader>>

kinVars == <<caller, caller0, frames>>
loadVars == <<first_run, pyInit, atexitCount, importedUninit, loader>>

Threads == {"t1", "t2"}

\* ---------------------------------------------------------------- inputs

Seqs(S, n) == UNION {[1..m -> S] : m \in 0..n}

RSeq(s) == [i \in 1..Len(s) |-> RInt(s[i])]

\* Sample quaternions (w, x, y, z), each of rational norm: two unit
\* quaternions, one of norm 2 that normalizes to the antipode of the
\* second, and the degenerate zero quaternion.
QuatSamples ==
  {<<Zero, Rat(3, 5), Zero, Rat(-4, 5)>>,
   <<Rat(1, 2), Rat(-1, 2), Rat(1, 2), Rat(1, 2)>>,
   RSeq(<<-1, 1, -1, -1>>),
   RSeq(<<0, 0, 0, 0>>)}

\* Sample positions (x, y, z).
PosSamples == {RSeq(<<0, 0, 0>>), RSeq(<<1, 0, 0>>), RSeq(<<-2, 3, 1>>)}

\* Sample values of a single channel, and polynomial coefficients.
PointSamples == {RInt(0), RInt(1), RInt(-2)}
CoeffSamples == {RInt(-1), RInt(0), RInt(2)}

\* Axis coefficient sequences of the polynomial operations.
AxisSamples == {<<>>, RSeq(<<1, 2>>), RSeq(<<3>>), RSeq(<<0, -1, 2>>)}

\* Query times of the polynomial operations.
PolyTimes == {RInt(-2), RInt(0), Rat(1, 2), RInt(3)}

Methods == {"linear", "spline"}

\* Channel j of the samples s: the samples' j-th components.
Transpose(s, w) == [j \in 1..w |-> [i \in 1..Len(s) |-> s[i][j]]]

\* Strictly increasing, unevenly spaced timestamps 0, 1, 3, 6, ...
TimeGrid(n) == [i \in 1..n |-> RInt((i * (i - 1)) \div 2)]

DropLast(q) == IF q = <<>> THEN q ELSE SubSeq(q, 1, Len(q) - 1)

\* Ways an input departs from a well-formed one.
Defects == {"none", "fewer", "more", "short_first", "short_other",
            "short_times"}

Defective(df, data, times) ==
  CASE df = "fewer" -> [data |-> DropLast(data), times |-> times]
    [] df = "more" -> [data |-> Append(data, data[1]), times |-> times]
    [] df = "short_first" ->
         [data |-> [data EXCEPT ![1] = DropLast(@)], times |-> times]
    [] df = "short_other" ->
         [data |-> [data EXCEPT ![2] = DropLast(@)], times |-> times]
    [] df = "short_times" -> [data |-> data, times |-> DropLast(times)]
    [] OTHER -> [data |-> data, times |-> times]

\* Query times around and inside [first, last].
Queries(times) ==
  IF times = <<>> THEN {Zero}
  ELSE LET lo == times[1]
           hi == times[Len(times)]
       IN  {RSub(lo, One), lo, RAdd(lo, Rat(1, 2)), RSub(hi, Rat(1, 2)), hi,
            RAdd(hi, One)}

\* The query times a defective input is called with: one inside, one outside.
DefectQueries(times) ==
  IF times = <<>> THEN {Zero}
  ELSE {RAdd(times[1], Rat(1, 2)), RAdd(times[Len(times)], One)}

\* Every channel that passes interpolate's checks has the points the GSL
\* method needs (gsl_interp_alloc refuses fewer).
InGslDomain(data, times, interp) ==
  \A j \in 1..Len(data) :
    (Len(data[j]) >= 2 /\ Len(data[j]) = Len(times))
      => Len(times) >= GslMinSize(interp)

\* --------------------------------------------------------------- actions

Samples(op) == IF op \in RotationOps THEN QuatSamples ELSE PosSamples

SetFrame(t, f) == frames' = [frames EXCEPT ![t] = f]

\* The caller's buffers after the callee wrote through its parameter, a
\* reference to them.
CallerAfterWriteByRef(c, f) == [c EXCEPT !.data = f.data]

\* The caller's buffers after the callee wrote to its parameter: the
\* parameter is passed by value, the writes land in the callee's copy.
CallerAfterWrite(c, f) == c

\* The caller fills its buffers and calls a tabulated operation.
CallTabulated(t) ==
  /\ frames[t].pc = "idle"
  /\ \E op \in TabulatedOps, df \in Defects, interp \in Methods :
       \E s \in Seqs(Samples(op), MaxLen) :
         LET in == Defective(df, Transpose(s, RequiredSize(op)), TimeGrid(Len(s)))
             qs == IF df = "none" THEN Queries(TimeGrid(Len(s)))
                   ELSE DefectQueries(TimeGrid(Len(s)))
         IN  \E time \in qs :
               /\ InGslDomain(in.data, in.times, interp)
               /\ caller' = in
               /\ caller0' = in
               /\ SetFrame(t, Enter(op, in.data, in.times, time, interp, DerivOf(op)))
  /\ UNCHANGED loadVars

\* The caller calls getPosition(coeffs, time) or getVelocity(coeffs, time).
CallPolynomial(t) ==
  /\ frames[t].pc = "idle"
  /\ \E op \in PolynomialOps, df \in {"none", "fewer", "more"}, time \in PolyTimes :
       \E s \in [1..3 -> AxisSamples] :
         LET in == Defective(df, s, <<>>)
         IN  /\ caller' = in
             /\ caller0' = in
             /\ SetFrame(t, Enter(op, in.data, <<>>, time, "linear", DerivOf(op)))
  /\ UNCHANGED loadVars

\* The caller calls interpolate(points, times, time, interp, d) itself.
CallInterpolate(t) ==
  /\ frames[t].pc = "idle"
  /\ \E df \in {"none", "short_times"}, interp \in Methods, d \in -1..3 :
       \E s \in Seqs(PointSamples, MaxLen) :
         LET in == Defective(df, <<s>>, TimeGrid(Len(s)))
         IN  \E time \in Queries(TimeGrid(Len(s))) :
               /\ InGslDomain(in.data, in.times, interp)
               /\ caller' = in
               /\ caller0' = in
               /\ SetFrame(t, Enter("interpolate", in.data, in.times, time, interp, d))
  /\ UNCHANGED loadVars

\* The caller calls evaluatePolynomial(coeffs, time, d) itself.
CallEvaluatePolynomial(t) ==
  /\ frames[t].pc = "idle"
  /\ \E d \in -1..MaxDeriv, time \in PolyTimes :
       \E s \in Seqs(CoeffSamples, MaxCoeffs) :
         /\ caller' = [data |-> <<s>>, times |-> <<>>]
         /\ caller0' = caller'
         /\ SetFrame(t, Enter("evaluatePolynomial", <<s>>, <<>>, time, "linear", d))
  /\ UNCHANGED loadVars

AtCheckSize(t) ==
  /\ frames[t].pc = "check_size"
  /\ SetFrame(t, CheckSize(frames[t]))
  /\ UNCHANGED <<caller, caller0>>
  /\ UNCHANGED loadVars

AtNormalizeSample(t) ==
  /\ frames[t].pc = "normalize"
  /\ \E f \in NormalizeSample(frames[t]) :
       /\ SetFrame(t, f)
       /\ caller' = CallerAfterWrite(caller, f)
  /\ UNCHANGED caller0
  /\ UNCHANGED loadVars

AtInterpCheck(t) ==
  /\ frames[t].pc = "ip_check"
  /\ SetFrame(t, InterpCheck(frames[t]))
  /\ UNCHANGED <<caller, caller0>>
  /\ UNCHANGED loadVars

AtInterpAlloc(t) ==
  /\ frames[t].pc = "ip_alloc"
  /\ SetFrame(t, InterpAlloc(frames[t]))
  /\ UNCHANGED <<caller, caller0>>
  /\ UNCHANGED loadVars

AtInterpEval(t) ==
  /\ frames[t].pc = "ip_eval"
  /\ SetFrame(t, InterpEval(frames[t]))
  /\ UNCHANGED <<caller, caller0>>
  /\ UNCHANGED loadVars

AtInterpFree(t) ==
  /\ frames[t].pc = "ip_free"
  /\ SetFrame(t, InterpFree(frames[t]))
  /\ UNCHANGED <<caller, caller0>>
  /\ UNCHANGED loadVars

AtFinalNormalize(t) ==
  /\ frames[t].pc = "final_normalize"
  /\ SetFrame(t, FinalNormalize(frames[t]))
  /\ UNCHANGED <<caller, caller0>>
  /\ UNCHANGED loadVars

AtPolyEval(t) ==
  /\ frames[t].pc = "poly"
  /\ SetFrame(t, PolyEval(frames[t]))
  /\ UNCHANGED <<caller, caller0>>
  /\ UNCHANGED loadVars

\* The call is over (returned or threw); the caller drops its buffers and
\* may call again.
Return(t) ==
  /\ frames[t].pc = "done"
  /\ frames[t].outcome # "crashed"
  /\ SetFrame(t, IdleFrame)
  /\ caller' = [data |-> <<>>, times |-> <<>>]
  /\ caller0' = caller'
  /\ UNCHANGED loadVars

Step(t) ==
  \/ AtCheckSize(t)
  \/ AtNormalizeSample(t)
  \/ AtInterpCheck(t)
  \/ AtInterpAlloc(t)
  \/ AtInterpEval(t)
  \/ AtInterpFree(t)
  \/ AtFinalNormalize(t)
  \/ AtPolyEval(t)
  \/ Return(t)

InitLoad ==
  /\ first_run = TRUE
  /\ pyInit = 0
  /\ atexitCount = 0
  /\ importedUninit = FALSE
  /\ loader = [t \in Threads |-> [pc |-> "idle", calls |-> 0]]

Init ==
  /\ caller = [data |-> <<>>, times |-> <<>>]
  /\ caller0 = caller
  /\ frames = [t \in Threads |-> IdleFrame]
  /\ InitLoad

\* One thread calling the operations one after the other.
Next ==
  \E t \in {"t1"} :
    \/ CallTabulated(t)
    \/ CallPolynomial(t)
    \/ CallInterpolate(t)
    \/ CallEvaluatePolynomial(t)
    \/ Step(t)

Spec == Init /\ [][Next]_vars

\* ------------------------------------------- concurrent tabulated calls

\* The caller's rotation buffers of the concurrent calls: MaxLen samples,
\* the odd ones a quaternion not of unit norm, the even ones that
\* quaternion again or another one.
SharedSamples ==
  {[i \in 1..MaxLen |-> IF i % 2 = 1 THEN RSeq(<<-1, 1, -1, -1>>) ELSE b] :
     b \in {RSeq(<<-1, 1, -1, -1>>), <<Zero, Rat(3, 5), Zero, Rat(-4, 5)>>}}

InitConc ==
  /\ caller \in {[data |-> Transpose(s, 4), times |-> TimeGrid(MaxLen)] :
                   s \in SharedSamples}
  /\ caller0 = caller
  /\ frames = [t \in Threads |-> IdleFrame]
  /\ InitLoad

\* The sequences of the caller's buffers an operation is given: all four
\* (w, x, y, z) for a rotation, the first three for a position, as samples
\* or as coefficients.
SharedArg(op, c) == IF op \in RotationOps THEN c.data ELSE SubSeq(c.data, 1, 3)

\* A thread calls a tabulated operation on the caller's buffers: the
\* arguments are copied into the callee's parameters.
CallShared(t) ==
  /\ frames[t].pc = "idle"
  /\ \E op \in TabulatedOps, interp \in Methods :
       \E time \in DefectQueries(caller.times) :
         /\ InGslDomain(caller.data, caller.times, interp)
         /\ SetFrame(t, Enter(op, SharedArg(op, caller), caller.times, time,
                              interp, DerivOf(op)))
  /\ UNCHANGED <<caller, caller0>>
  /\ UNCHANGED loadVars

\* A thread calls a polynomial operation with the caller's first three
\* sequences as coefficients.
CallSharedPolynomial(t) ==
  /\ frames[t].pc = "idle"
  /\ \E op \in PolynomialOps :
       SetFrame(t, Enter(op, SharedArg(op, caller), <<>>, Rat(1, 2), "linear",
                        DerivOf(op)))
  /\ UNCHANGED <<caller, caller0>>
  /\ UNCHANGED loadVars

\* The call is over; the thread keeps the caller's buffers as they are.
ReturnShared(t) ==
  /\ frames[t].pc = "done"
  /\ SetFrame(t, IdleFrame)
  /\ UNCHANGED <<caller, caller0>>
  /\ UNCHANGED loadVars

NextConc ==
  \E t \in Threads :
    \/ CallShared(t)
    \/ CallSharedPolynomial(t)
    \/ AtCheckSize(t)
    \/ AtNormalizeSample(t)
    \/ AtInterpCheck(t)
    \/ AtInterpAlloc(t)
    \/ AtInterpEval(t)
    \/ AtInterpFree(t)
    \/ AtFinalNormalize(t)
    \/ AtPolyEval(t)
    \/ ReturnShared(t)

SpecConc == InitConc /\ [][NextConc]_vars

\* ------------------------------------------------------------------ load

SetLoader(t, pc) == loader' = [loader EXCEPT ![t].pc = pc]

\* A thread calls load(filename).
CallLoad(t) ==
  /\ loader[t].pc = "idle"
  /\ loader[t].calls < MaxLoads
  /\ loader' = [loader EXCEPT ![t] = [pc |-> "test", calls |-> @.calls + 1]]
  /\ UNCHANGED <<first_run, pyInit, atexitCount, importedUninit>>
  /\ UNCHANGED kinVars

\* if (first_run)
LoadTest(t) ==
  /\ loader[t].pc = "test"
  /\ SetLoader(t, IF first_run THEN "flip" ELSE "import")
  /\ UNCHANGED <<first_run, pyInit, atexitCount, importedUninit>>
  /\ UNCHANGED kinVars

\* first_run = !first_run;
LoadFlip(t) ==
  /\ loader[t].pc = "flip"
  /\ first_run' = ~first_run
  /\ SetLoader(t, "initialize")
  /\ UNCHANGED <<pyInit, atexitCount, importedUninit>>
  /\ UNCHANGED kinVars

\* Py_Initialize();
LoadInitialize(t) ==
  /\ loader[t].pc = "initialize"
  /\ pyInit' = pyInit + 1
  /\ SetLoader(t, "atexit")
  /\ UNCHANGED <<first_run, atexitCount, importedUninit>>
  /\ UNCHANGED kinVars

\* atexit(Py_Finalize);
LoadAtexit(t) ==
  /\ loader[t].pc = "atexit"
  /\ atexitCount' = atexitCount + 1
  /\ SetLoader(t, "import")
  /\ UNCHANGED <<first_run, pyInit, importedUninit>>
  /\ UNCHANGED kinVars

\* PyImport_Import(...): the module, or NULL and throw getPyTraceback().
LoadImport(t) ==
  /\ loader[t].pc = "import"
  /\ importedUninit' = (importedUninit \/ pyInit = 0)
  /\ \E ok \in BOOLEAN : SetLoader(t, IF ok THEN "call" ELSE "idle")
  /\ UNCHANGED <<first_run, pyInit, atexitCount>>
  /\ UNCHANGED kinVars

\* The rest of load: loads is looked up and called; the call returns the
\* result or, on any failure, the traceback.
LoadCall(t) ==
  /\ loader[t].pc = "call"
  /\ SetLoader(t, "idle")
  /\ UNCHANGED <<first_run, pyInit, atexitCount, importedUninit>>
  /\ UNCHANGED kinVars

NextLoad ==
  \E t \in Threads :
    \/ CallLoad(t)
    \/ LoadTest(t)
    \/ LoadFlip(t)
    \/ LoadInitialize(t)
    \/ LoadAtexit(t)
    \/ LoadImport(t)
    \/ LoadCall(t)

SpecLoad == Init /\ [][NextLoad]_vars

\* ============================================================ properties

\* The frame of the one thread of Spec.
F == frames["t1"]

Ended(f) == f.pc = "done"

\* Exact comparison of rationals, written out.
Less(a, b) == a[1] * b[2] < b[1] * a[2]

\* ----------------------------------------------------------------- C1
\* C1: a tabulated operation given a channel count other than its own (3
\* for getPosition / getVelocity, 4 for getRotation / getAngularVelocity)
\* and a polynomial operation given other than 3 axis sequences throw
\* invalid_argument, and at no point of such a call has any sample been
\* normalized, any interpolant been built or evaluated, or any polynomial
\* been evaluated.
C1_ShapeRejectedBeforeWork ==
  (/\ F.op \in TabulatedOps \cup PolynomialOps
   /\ Len(F.data) # (IF F.op \in {"getRotation", "getAngularVelocity"} THEN 4 ELSE 3))
  => /\ F.log = <<>>
     /\ F.coordinate = <<>>
     /\ F.heap = {}
     /\ F.data = caller0.data
     /\ F.pc \in {"check_size", "done"}
     /\ Ended(F) => (F.outcome = "invalid_argument" /\ F.msg = "size")

\* getPosition called with 2 channels has thrown.
C1_Witness ==
  /\ Ended(F)
  /\ F.op = "getPosition"
  /\ Len(F.data) = 2
  /\ F.outcome = "invalid_argument"

C3_ReleasedOnEveryExit ==
  (Ended(F) /\ F.op = "interpolate")
  => /\ F.heap = {}
     /\ F.outcome = "invalid_argument" => F.log = <<>>

\* ----------------------------------------------------------------- C4
\* The caller's 4 rotation channels or the query time break a precondition:
\* a channel is shorter than channel 0, has fewer than 2 samples or a
\* length other than the timestamps', or the time is out of range.
C4_PreconditionBroken ==
  \/ \E j \in 1..4 :
       \/ Len(caller0.data[j]) < Len(caller0.data[1])
       \/ Len(caller0.data[j]) < 2
       \/ Len(caller0.data[j]) # Len(caller0.times)
  \/ /\ caller0.times # <<>>
     /\ \/ Less(F.time, caller0.times[1])
        \/ Less(caller0.times[Len(caller0.times)], F.time)

\* C4: getRotation and getAngularVelocity given 4 channels that break a
\* precondition end with invalid_argument, having normalized no sample and
\* indexed no channel beyond its length.
C4_ChecksBeforeWork ==
  (/\ Ended(F)
   /\ F.op \in RotationOps
   /\ Len(caller0.data) = 4
   /\ C4_PreconditionBroken)
  => /\ F.outcome = "invalid_argument"
     /\ \A n \in 1..Len(F.log) : F.log[n] \notin {"normalize", "oob"}
     /\ F.data = caller0.data

\* ----------------------------------------------------------------- C5
\* Sample i of the caller's rotation channels.
SampleAt(c, i) == [j \in 1..4 |-> c.data[j][i]]

\* A rotation call on valid input with no zero-norm sample has returned.
C5_ValidReturn ==
  /\ Ended(F)
  /\ F.op \in RotationOps
  /\ F.outcome = "returned"
  /\ \A i \in 1..Len(caller0.times) : SquaredNorm(SampleAt(caller0, i)) # Zero

IsZeroVector(v) == \A j \in 1..Len(v) : v[j] = Zero

\* C5 as stated: every such result has Euclidean norm 1 (the returned
\* vector is coordinate / sqrt(scale)).
C5_UnitNormAlways ==
  C5_ValidReturn => SquaredNorm(F.coordinate) = F.scale

\* C5, amended: the result has Euclidean norm 1 whenever the 4-vector of
\* interpolated components is not the zero vector, and is that zero vector
\* when it is.
C5_UnitNormUnlessZero ==
  C5_ValidReturn
  => IF IsZeroVector(F.coordinate) THEN F.scale = One
     ELSE SquaredNorm(F.coordinate) = F.scale

\* A rotation call has returned a vector that the final normalization
\* rescaled to norm 1.
C5_Witness ==
  /\ C5_ValidReturn
  /\ F.op = "getAngularVelocity"
  /\ ~IsZeroVector(F.coordinate)
  /\ F.scale # One
  /\ SquaredNorm(F.coordinate) = F.scale

\* ----------------------------------------------------------------- C6
\* The caller's rotation channels are constant at a unit quaternion over
\* two or more timestamps, and the call is made at an interior query time.
C6_ConstantUnit ==
  /\ F.op \in RotationOps
  /\ Len(caller0.data) = 4
  /\ Len(caller0.times) >= 2
  /\ \A j \in 1..4 : Len(caller0.data[j]) = Len(caller0.times)
  /\ \A i \in 1..Len(caller0.times) : SampleAt(caller0, i) = SampleAt(caller0, 1)
  /\ SquaredNorm(SampleAt(caller0, 1)) = One
  /\ Less(caller0.times[1], F.time)
  /\ Less(F.time, caller0.times[Len(caller0.times)])

RECURSIVE Power(_, _)
Power(x, n) == IF n = 0 THEN One ELSE RMul(x, Power(x, n - 1))

\* i (i - 1) ... (i - d + 1)
RECURSIVE FallingFactorial(_, _)
FallingFactorial(i, d) == IF d = 0 THEN 1 ELSE i * FallingFactorial(i - 1, d - 1)

\* The sum over the terms of degree d .. n - 1 of the d-th derivative of
\* c[1] + c[2] t + c[3] t^2 + ...
RECURSIVE DerivativeSum(_, _, _, _)
DerivativeSum(c, t, d, n) ==
  IF n <= d THEN Zero
  ELSE RAdd(DerivativeSum(c, t, d, n - 1),
            RMul(RInt(FallingFactorial(n - 1, d)), RMul(c[n], Power(t, n - 1 - d))))

AnalyticDerivative(c, t, d) == DerivativeSum(c, t, d, Len(c))

\* C7: evaluatePolynomial over coefficients in ascending order of power
\* returns the d-th analytic derivative at the time, which is 0 when d
\* exceeds the degree, and throws invalid_argument for empty coefficients
\* or a negative d; the polynomial getPosition returns, axis by axis, the
\* value of the polynomial and the polynomial getVelocity its first
\* derivative at the same time.
C7_PolynomialDerivative ==
  Ended(F) =>
    /\ F.op = "evaluatePolynomial" =>
         IF F.data[1] = <<>> \/ F.d < 0
         THEN F.outcome = "invalid_argument" /\ F.coordinate = <<>>
         ELSE /\ F.outcome = "returned"
              /\ F.coordinate = <<AnalyticDerivative(F.data[1], F.time, F.d)>>
              /\ F.d >= Len(F.data[1]) => F.coordinate = <<Zero>>
    /\ (/\ F.op \in {"getPositionPoly", "getVelocityPoly"}
        /\ Len(F.data) = 3
        /\ \A j \in 1..3 : F.data[j] # <<>>)
       => /\ F.outcome = "returned"
          /\ F.coordinate =
               [j \in 1..3 |->
                  AnalyticDerivative(F.data[j], F.time,
                                     IF F.op = "getVelocityPoly" THEN 1 ELSE 0)]

\* evaluatePolynomial has returned the non-zero second derivative of a
\* polynomial of degree 2 at a time other than 0.
C7_Witness ==
  /\ Ended(F)
  /\ F.op = "evaluatePolynomial"
  /\ Len(F.data[1]) = 3
  /\ F.d = 2
  /\ F.time # Zero
  /\ F.outcome = "returned"
  /\ F.coordinate # <<Zero>>

\* ----------------------------------------------------------------- C8
\* The channels a call works on are the caller's original ones, normalized
\* sample by sample for a rotation.
C8_OwnCopy(f) ==
  IF f.op \in RotationOps
  THEN \A i \in 1..Len(caller0.times) :
         [j \in 1..4 |-> f.data[j][i]] = QuatNormalize(SampleAt(caller0, i))
  ELSE f.data = SubSeq(caller0.data, 1, 3)

\* The returned components are the ones interpolated from those channels
\* at the call's time.
C8_Interpolated(f) ==
  /\ Len(f.coordinate) = Len(f.data)
  /\ \A k \in 1..Len(f.data) :
       \E c \in {GslInit(f.interp, caller0.times, f.data[k])} :
         f.coordinate[k] =
           GslEval(f.interp, caller0.times, f.data[k], c, f.time,
                   IF f.op \in {"getVelocity", "getAngularVelocity"} THEN 1 ELSE 0)

\* The call ended as the same call alone on the caller's original buffers
\* ends: a polynomial operation returns the value or first derivative of
\* the three polynomials, a tabulated one throws for a time out of range
\* and otherwise returns the interpolated components, normalized for a
\* rotation.
C8_SoloOutcome(f) ==
  IF f.op \in PolynomialOps
  THEN /\ f.outcome = "returned"
       /\ f.coordinate =
            [k \in 1..3 |->
               AnalyticDerivative(f.data[k], f.time,
                                  IF f.op = "getVelocityPoly" THEN 1 ELSE 0)]
  ELSE /\ f.times = caller0.times
       /\ IF \/ Less(f.time, caller0.times[1])
             \/ Less(caller0.times[Len(caller0.times)], f.time)
          THEN f.outcome = "invalid_argument"
          ELSE /\ f.outcome = "returned"
               /\ C8_Interpolated(f)
               /\ f.scale = (IF f.op \in RotationOps
                             THEN NormalizeScale(f.coordinate) ELSE One)

\* C8: while two threads call the tabulated and polynomial operations on
\* the same caller buffers, the caller's channel, timestamp and coefficient
\* sequences stay as they were (the rotation path normalizes its own copy),
\* and every call ends as that call alone on the caller's original buffers
\* ends, whatever the other thread did meanwhile.
C8_PureAndUnshared ==
  /\ caller = caller0
  /\ \A t \in Threads :
       Ended(frames[t]) => (C8_OwnCopy(frames[t]) /\ C8_SoloOutcome(frames[t]))

\* One getRotation has returned while a concurrent getAngularVelocity on
\* the same buffers, having normalized its samples, is between two of its
\* interpolations.
C8_Witness ==
  /\ Ended(frames["t1"])
  /\ frames["t1"].op = "getRotation"
  /\ frames["t1"].outcome = "returned"
  /\ frames["t1"].data # caller.data
  /\ frames["t2"].op = "getAngularVelocity"
  /\ frames["t2"].pc = "ip_eval"
  /\ frames["t2"].k = 3

\* ----------------------------------------------------------------- C9
\* The samples of the callee's channels are the caller's, each normalized.
C9_SamplesNormalized ==
  \A i \in 1..Len(caller0.times) :
    [j \in 1..4 |-> F.data[j][i]] = QuatNormalize(SampleAt(caller0, i))

\* The events of a rotation call up to its last interpolation: one
\* normalization per sample, then four interpolations.
C9_Prefix ==
  [i \in 1..Len(caller0.times) |-> "normalize"]
    \o <<"alloc", "eval", "free">> \o <<"alloc", "eval", "free">>
    \o <<"alloc", "eval", "free">> \o <<"alloc", "eval", "free">>

C9_Returned ==
  /\ Ended(F)
  /\ F.op \in RotationOps
  /\ F.outcome = "returned"

\* C9 as stated: every sample is normalized first, then the four
\* components are interpolated, then getRotation normalizes the resulting
\* 4-vector, while getAngularVelocity never normalizes the derivative
\* 4-vector.
C9_OrderAsStated ==
  C9_Returned
  => /\ C9_SamplesNormalized
     /\ F.log = C9_Prefix \o (IF F.op = "getRotation" THEN <<"normalize_result">>
                              ELSE <<>>)

\* C9, amended: every sample is normalized first, then the four components
\* are interpolated (values for getRotation, first derivatives for
\* getAngularVelocity), then the resulting 4-vector is normalized, in
\* getAngularVelocity as in getRotation.
C9_OrderWithFinalNormalize ==
  C9_Returned
  => /\ C9_SamplesNormalized
     /\ F.log = C9_Prefix \o <<"normalize_result">>
     /\ F.d = (IF F.op = "getRotation" THEN 0 ELSE 1)
     /\ F.scale = NormalizeScale(F.coordinate)

\* getAngularVelocity has returned over samples of which one was not of
\* unit norm, and its derivative 4-vector was rescaled.
C9_Witness ==
  /\ C9_Returned
  /\ F.op = "getAngularVelocity"
  /\ F.data # caller0.data
  /\ F.scale \notin {Zero, One}
  /\ F.log[Len(F.log)] = "normalize_result"

\* ---------------------------------------------------------------- C10
\* C10: over any calls of load, concurrent first calls included, the
\* interpreter is initialized once and its finalizer registered once, and
\* no module is imported before the interpreter is initialized.
C10_InitializedOnce ==
  /\ pyInit <= 1
  /\ atexitCount <= 1
  /\ ~importedUninit

====
